---------------------------- MODULE Spec2Model ----------------------------
(***************************************************************************)
(* Persistent data structures of prust: the AVL ordered map (avl.rs), the  *)
(* trie substrate (trie.rs), the hash-addressed map built on it            *)
(* (hashmap.rs), the singly linked list (list.rs) and the deque made of    *)
(* two lists (deque.rs).  Every structure is an immutable value; an        *)
(* operation returns a new version.  The AVL specification keeps the held  *)
(* version, the version it was produced from and the call that produced    *)
(* it; the trie, hash-map and deque specifications keep the held version   *)
(* and a record of what was put into it, and their properties range over   *)
(* every call that can be made on the held version.                        *)
(***************************************************************************)
EXTENDS Integers, Sequences, FiniteSets, TLC

VARIABLES tree, prevTree, avlOp,
          trie, bags,
          map, puts,
          list,
          deque, elems,
          memory, held, seen,
          nodes, version

avlVars  == <<tree, prevTree, avlOp>>
trieVars == <<trie, bags>>
mapVars  == <<map, puts>>
listVars == <<list>>
dequeVars == <<deque, elems>>
sharedAvlVars == <<memory, held, seen>>
sharedTrieVars == <<nodes, version>>
vars     == <<tree, prevTree, avlOp, trie, bags, map, puts, list, deque, elems,
              memory, held, seen, nodes, version>>

(***************************************************************************)
(* Bounds of the model.                                                    *)
(***************************************************************************)
MaxKey == 5       \* AVL keys are 1..MaxKey
MaxVal == 2       \* AVL values are 1..MaxVal
MaxPathLen == 1   \* values are stored at paths of at most MaxPathLen symbols
MaxStored == 3    \* at most MaxStored values are stored in one trie
MaxMapKey == 3    \* hash-map keys are 1..MaxMapKey
MaxMapVal == 2    \* hash-map values are 1..MaxMapVal
MaxEntries == 3   \* at most MaxEntries entries are stored in one hash map
HashBits == 4     \* get_bits takes the low HashBits bits of the hash (the
                  \* code takes all 64 of the u64)
MaxElem == 3      \* list and deque elements are 1..MaxElem
MaxDequeLen == 4  \* at most MaxDequeLen elements are held in one deque
MaxListLen == 4   \* at most MaxListLen elements are held in one list
MaxSharedKey == 3 \* keys of the trees that share nodes are 1..MaxSharedKey
MaxCells == 4     \* at most MaxCells tree nodes are in the memory
MaxSharedStored == 2  \* at most MaxSharedStored values or entries are stored
                      \* in a trie or hash map whose nodes are in a memory

Keys == 1..MaxKey
Vals == 1..MaxVal
Syms == BOOLEAN    \* the trie's symbol type T, taken as bool
PathsUpTo(n) == UNION {[1..m -> Syms] : m \in 0..n}
Paths == PathsUpTo(MaxPathLen)          \* paths the stored values are at
CallPaths == PathsUpTo(MaxPathLen + 1)  \* paths an operation is asked about
MapKeys == 1..MaxMapKey
MapVals == 1..MaxMapVal
Elems == 1..MaxElem
SharedKeys == 1..MaxSharedKey
SharedVals == {999, 123}  \* the values test_avl_map puts for one key

(***************************************************************************)
(* Option<T>: None is the empty tuple, Some(x) the one-element tuple.      *)
(***************************************************************************)
None    == <<>>
Some(x) == <<x>>

max(a, b) == IF a >= b THEN a ELSE b

(***************************************************************************)
(* avl.rs -- enum AVL { Empty, Node { key, value, left, right } }.         *)
(* A tree is the empty tuple or the tuple <<key, value, left, right>>.     *)
(***************************************************************************)
Empty == <<>>
Node(k, v, l, r) == <<k, v, l, r>>

is_empty(t) == t = Empty

keyOf(t)   == t[1]
valueOf(t) == t[2]
leftOf(t)  == t[3]
rightOf(t) == t[4]

RECURSIVE height(_)
height(t) ==
    IF is_empty(t) THEN 0
    ELSE 1 + max(height(leftOf(t)), height(rightOf(t)))

diff(t) ==
    IF is_empty(t) THEN 0
    ELSE height(leftOf(t)) - height(rightOf(t))

RECURSIVE find(_, _)
find(t, target) ==
    IF is_empty(t) THEN None
    ELSE IF target < keyOf(t) THEN find(leftOf(t), target)
    ELSE IF target = keyOf(t) THEN Some(valueOf(t))
    ELSE find(rightOf(t), target)

\* A rotation that hangs the middle subtree t2 on the wrong side of x.
right_rotation_misplaced(t) ==
    IF ~is_empty(t) /\ ~is_empty(leftOf(t))
    THEN LET lt == leftOf(t)
         IN  Node(keyOf(lt), valueOf(lt), leftOf(lt),
                  Node(keyOf(t), valueOf(t), rightOf(t), rightOf(lt)))
    ELSE t

right_rotation(t) ==
    IF ~is_empty(t) /\ ~is_empty(leftOf(t))
    THEN LET lt == leftOf(t)
         IN  Node(keyOf(lt), valueOf(lt), leftOf(lt),
                  Node(keyOf(t), valueOf(t), rightOf(lt), rightOf(t)))
    ELSE t

left_rotation(t) ==
    IF ~is_empty(t) /\ ~is_empty(rightOf(t))
    THEN LET rt == rightOf(t)
         IN  Node(keyOf(rt), valueOf(rt),
                  Node(keyOf(t), valueOf(t), leftOf(t), leftOf(rt)),
                  rightOf(rt))
    ELSE t

\* A right_fix that never rotates the left child first.
right_fix_single_only(t) ==
    IF ~is_empty(t) THEN right_rotation(t) ELSE t

right_fix(t) ==
    IF ~is_empty(t)
    THEN IF diff(leftOf(t)) = -1
         THEN right_rotation(Node(keyOf(t), valueOf(t),
                                  left_rotation(leftOf(t)), rightOf(t)))
         ELSE right_rotation(t)
    ELSE t

left_fix(t) ==
    IF ~is_empty(t)
    THEN IF diff(rightOf(t)) = 1
         THEN left_rotation(Node(keyOf(t), valueOf(t),
                                 leftOf(t), right_rotation(rightOf(t))))
         ELSE left_rotation(t)
    ELSE t

\* A fix that never rebalances.
fix_skipped(t) == t

fix(t) ==
    CASE diff(t) = 2  -> right_fix(t)
      [] diff(t) = -2 -> left_fix(t)
      [] OTHER        -> t

\* A put that keeps the old value when the key is already present.
RECURSIVE put_rc_keep_old(_, _, _)
put_rc_keep_old(t, k, v) ==
    IF is_empty(t) THEN Node(k, v, Empty, Empty)
    ELSE IF k < keyOf(t)
         THEN fix(Node(keyOf(t), valueOf(t),
                       put_rc_keep_old(leftOf(t), k, v), rightOf(t)))
    ELSE IF k = keyOf(t)
         THEN t
    ELSE fix(Node(keyOf(t), valueOf(t),
                  leftOf(t), put_rc_keep_old(rightOf(t), k, v)))

\* A put that, on finding the key, builds the node without its subtrees.
RECURSIVE put_rc_drops_subtrees(_, _, _)
put_rc_drops_subtrees(t, k, v) ==
    IF is_empty(t) THEN Node(k, v, Empty, Empty)
    ELSE IF k < keyOf(t)
         THEN fix(Node(keyOf(t), valueOf(t),
                       put_rc_drops_subtrees(leftOf(t), k, v), rightOf(t)))
    ELSE IF k = keyOf(t)
         THEN Node(k, v, Empty, Empty)
    ELSE fix(Node(keyOf(t), valueOf(t),
                  leftOf(t), put_rc_drops_subtrees(rightOf(t), k, v)))

\* A put that, on finding the key, rotates the node it builds.
RECURSIVE put_rc_match_rotated(_, _, _)
put_rc_match_rotated(t, k, v) ==
    IF is_empty(t) THEN Node(k, v, Empty, Empty)
    ELSE IF k < keyOf(t)
         THEN fix(Node(keyOf(t), valueOf(t),
                       put_rc_match_rotated(leftOf(t), k, v), rightOf(t)))
    ELSE IF k = keyOf(t)
         THEN right_rotation(Node(k, v, leftOf(t), rightOf(t)))
    ELSE fix(Node(keyOf(t), valueOf(t),
                  leftOf(t), put_rc_match_rotated(rightOf(t), k, v)))

RECURSIVE put_rc(_, _, _)
put_rc(t, k, v) ==
    IF is_empty(t) THEN Node(k, v, Empty, Empty)
    ELSE IF k < keyOf(t)
         THEN fix(Node(keyOf(t), valueOf(t), put_rc(leftOf(t), k, v), rightOf(t)))
    ELSE IF k = keyOf(t)
         THEN Node(k, v, leftOf(t), rightOf(t))
    ELSE fix(Node(keyOf(t), valueOf(t), leftOf(t), put_rc(rightOf(t), k, v)))

put(t, k, v) == put_rc(t, k, v)

\* A find_max that goes down the left side: it finds the smallest key.
RECURSIVE find_max_leftmost(_)
find_max_leftmost(t) ==
    IF is_empty(t) THEN None
    ELSE IF is_empty(leftOf(t)) THEN Some(<<keyOf(t), valueOf(t)>>)
    ELSE find_max_leftmost(leftOf(t))

RECURSIVE find_max(_)
find_max(t) ==
    IF is_empty(t) THEN None
    ELSE IF is_empty(rightOf(t)) THEN Some(<<keyOf(t), valueOf(t)>>)
    ELSE find_max(rightOf(t))

\* A delete without the two-children case: a matching node is replaced by
\* its left subtree whenever that is non-empty.
RECURSIVE delete_one_child_only(_, _)
delete_one_child_only(t, target) ==
    IF is_empty(t) THEN Empty
    ELSE IF target < keyOf(t)
         THEN fix(Node(keyOf(t), valueOf(t),
                       delete_one_child_only(leftOf(t), target), rightOf(t)))
    ELSE IF target = keyOf(t)
         THEN IF is_empty(leftOf(t)) THEN rightOf(t) ELSE leftOf(t)
    ELSE fix(Node(keyOf(t), valueOf(t),
                  leftOf(t), delete_one_child_only(rightOf(t), target)))

RECURSIVE delete(_, _)
delete(t, target) ==
    IF is_empty(t) THEN Empty
    ELSE IF target < keyOf(t)
         THEN fix(Node(keyOf(t), valueOf(t), delete(leftOf(t), target), rightOf(t)))
    ELSE IF target = keyOf(t)
         THEN IF is_empty(leftOf(t)) THEN rightOf(t)
              ELSE IF is_empty(rightOf(t)) THEN leftOf(t)
              ELSE LET inorder_predecessor == find_max(leftOf(t))
                   IN  IF inorder_predecessor # None
                       THEN LET pred == inorder_predecessor[1]
                            IN  fix(Node(pred[1], pred[2],
                                         delete(leftOf(t), pred[1]), rightOf(t)))
                       ELSE t
    ELSE fix(Node(keyOf(t), valueOf(t), leftOf(t), delete(rightOf(t), target)))

\* The node that the Equal branch of delete builds at a node t with two
\* children, before it calls fix on it.
delete_rebuilt(t) ==
    LET pred == find_max(leftOf(t))[1]
    IN  Node(pred[1], pred[2], delete(leftOf(t), pred[1]), rightOf(t))

(***************************************************************************)
(* Observers of a tree used to state the properties.                       *)
(***************************************************************************)
RECURSIVE inorder(_)
inorder(t) ==
    IF is_empty(t) THEN <<>>
    ELSE inorder(leftOf(t)) \o <<keyOf(t)>> \o inorder(rightOf(t))

\* The key/value pairs of a tree in in-order.
RECURSIVE inorder_kv(_)
inorder_kv(t) ==
    IF is_empty(t) THEN <<>>
    ELSE inorder_kv(leftOf(t)) \o <<<<keyOf(t), valueOf(t)>>>>
             \o inorder_kv(rightOf(t))

RECURSIVE balanced(_)
balanced(t) ==
    is_empty(t) \/ ( /\ diff(t) \in {-1, 0, 1}
                     /\ balanced(leftOf(t))
                     /\ balanced(rightOf(t)) )

strictlyAscending(s) == \A i \in 1..(Len(s) - 1) : s[i] < s[i + 1]

\* The subtree whose root holds key k (Empty when k is not on the search path).
RECURSIVE node_at(_, _)
node_at(t, k) ==
    IF is_empty(t) THEN Empty
    ELSE IF k < keyOf(t) THEN node_at(leftOf(t), k)
    ELSE IF k = keyOf(t) THEN t
    ELSE node_at(rightOf(t), k)

(***************************************************************************)
(* AVL specification: a holder of the current version calls put or delete  *)
(* and continues with the returned version.                                *)
(***************************************************************************)
NoOp == [name |-> "empty", key |-> 0, value |-> 0]

AvlInit ==
    /\ tree = Empty
    /\ prevTree = Empty
    /\ avlOp = NoOp

AvlPut ==
    \E k \in Keys, v \in Vals :
        /\ tree' = put(tree, k, v)
        /\ prevTree' = tree
        /\ avlOp' = [name |-> "put", key |-> k, value |-> v]
        /\ UNCHANGED <<trieVars, mapVars, dequeVars, sharedAvlVars, sharedTrieVars, listVars>>

AvlDelete ==
    \E k \in Keys :
        /\ tree' = delete(tree, k)
        /\ prevTree' = tree
        /\ avlOp' = [name |-> "delete", key |-> k, value |-> 0]
        /\ UNCHANGED <<trieVars, mapVars, dequeVars, sharedAvlVars, sharedTrieVars, listVars>>

AvlNext == AvlPut \/ AvlDelete

(***************************************************************************)
(* Properties of the AVL tree.                                             *)
(***************************************************************************)

\* C1: every tree reachable from AVL::empty() by put and delete is
\* AVL-balanced: at every node |height(left) - height(right)| <= 1.
AvlBalanceInv == balanced(tree)

\* A delete whose rebalancing rotated the root: the root key changed although
\* the deleted key was not the root's.
AvlBalanceWitness ==
    /\ avlOp.name = "delete"
    /\ ~is_empty(prevTree) /\ ~is_empty(tree)
    /\ avlOp.key # keyOf(prevTree)
    /\ keyOf(tree) # keyOf(prevTree)
    /\ height(prevTree) >= 3

\* C2: the in-order traversal of every reachable tree yields strictly
\* ascending keys.
AvlOrderInv == strictlyAscending(inorder(tree))

\* A put of a fifth key whose rebalancing rotated a child of the root: the
\* root keeps its key and that child's key changes.
AvlOrderWitness ==
    /\ avlOp.name = "put"
    /\ Len(inorder(prevTree)) = 4
    /\ Len(inorder(tree)) = 5
    /\ keyOf(tree) = keyOf(prevTree)
    /\ \E side \in {3, 4} :
           /\ ~is_empty(prevTree[side])
           /\ keyOf(tree[side]) # keyOf(prevTree[side])

\* C3: after T.put(k, v), find(k) returns v, also when k was already in T
\* with another value.
AvlPutFindRoundTrip ==
    avlOp.name = "put" => find(tree, avlOp.key) = Some(avlOp.value)

\* A put that replaced a different value of a key below the root.
AvlPutFindWitness ==
    /\ avlOp.name = "put"
    /\ find(prevTree, avlOp.key) # None
    /\ find(prevTree, avlOp.key) # Some(avlOp.value)
    /\ keyOf(prevTree) # avlOp.key
    /\ find(tree, avlOp.key) = Some(avlOp.value)

\* C4: after T.delete(k), find(k) is None and every other key k' has the
\* mapping it had in T, whether or not k was in T.
AvlDeleteCorrect ==
    avlOp.name = "delete" =>
        /\ find(tree, avlOp.key) = None
        /\ \A k2 \in Keys \ {avlOp.key} : find(tree, k2) = find(prevTree, k2)

\* A delete of a key held by a node with two non-empty subtrees.
AvlDeleteWitness ==
    /\ avlOp.name = "delete"
    /\ LET n == node_at(prevTree, avlOp.key)
       IN  /\ ~is_empty(n)
           /\ ~is_empty(leftOf(n))
           /\ ~is_empty(rightOf(n))
    /\ find(tree, avlOp.key) = None

\* C17: for keys k # k2, T.put(k, v).find(k2) equals T.find(k2): a put, with
\* or without rotations, leaves the mapping of every other key as it was.
AvlPutFrame ==
    avlOp.name = "put" =>
        \A k2 \in Keys \ {avlOp.key} : find(tree, k2) = find(prevTree, k2)

\* A put of a new key whose rebalancing rotated the root of a tree that
\* held two or more other keys, all of them found as before.
AvlPutFrameWitness ==
    /\ avlOp.name = "put"
    /\ Len(inorder(prevTree)) >= 2
    /\ find(prevTree, avlOp.key) = None
    /\ keyOf(tree) # keyOf(prevTree)
    /\ \A k2 \in Keys \ {avlOp.key} : find(tree, k2) = find(prevTree, k2)

(***************************************************************************)
(* Properties of fix, stated of every node that the put or the delete that  *)
(* made the held tree applied fix to.                                      *)
(***************************************************************************)
\* The nodes put_rc calls fix on: on the way to k, the node rebuilt around
\* the subtree that the recursive call returned.
RECURSIVE put_rc_fix_calls(_, _, _)
put_rc_fix_calls(t, k, v) ==
    IF is_empty(t) THEN {}
    ELSE IF k < keyOf(t)
         THEN {Node(keyOf(t), valueOf(t), put_rc(leftOf(t), k, v), rightOf(t))}
                  \cup put_rc_fix_calls(leftOf(t), k, v)
    ELSE IF k = keyOf(t)
         THEN {}
    ELSE {Node(keyOf(t), valueOf(t), leftOf(t), put_rc(rightOf(t), k, v))}
             \cup put_rc_fix_calls(rightOf(t), k, v)

\* The nodes delete calls fix on: on the way to target, the node rebuilt
\* around the subtree that the recursive call returned, and at a target with
\* two children the node rebuilt with the in-order predecessor.
RECURSIVE delete_fix_calls(_, _)
delete_fix_calls(t, target) ==
    IF is_empty(t) THEN {}
    ELSE IF target < keyOf(t)
         THEN {Node(keyOf(t), valueOf(t), delete(leftOf(t), target), rightOf(t))}
                  \cup delete_fix_calls(leftOf(t), target)
    ELSE IF target = keyOf(t)
         THEN IF is_empty(leftOf(t)) \/ is_empty(rightOf(t)) THEN {}
              ELSE LET inorder_predecessor == find_max(leftOf(t))
                   IN  IF inorder_predecessor # None
                       THEN LET pred == inorder_predecessor[1]
                            IN  {Node(pred[1], pred[2],
                                      delete(leftOf(t), pred[1]), rightOf(t))}
                                    \cup delete_fix_calls(leftOf(t), pred[1])
                       ELSE {}
    ELSE {Node(keyOf(t), valueOf(t), leftOf(t), delete(rightOf(t), target))}
             \cup delete_fix_calls(rightOf(t), target)

\* The nodes the call that made the held tree applied fix to.
last_fix_calls ==
    CASE avlOp.name = "put" ->
             put_rc_fix_calls(prevTree, avlOp.key, avlOp.value)
      [] avlOp.name = "delete" -> delete_fix_calls(prevTree, avlOp.key)
      [] OTHER -> {}

\* C25: every node fix is applied to during a put or a delete has two
\* balanced subtrees and a diff of -2 to 2.  fix returns it unchanged when
\* the diff is -1, 0 or 1; at diff 2 it left-rotates the left child first
\* exactly when that child's diff is -1 and then right-rotates the node,
\* otherwise right-rotates only; at diff -2 the mirror image.  The result is
\* balanced and has the in-order key/value sequence of the node.
AvlFixRestores ==
    \A n \in last_fix_calls :
        /\ balanced(leftOf(n)) /\ balanced(rightOf(n))
        /\ diff(n) \in -2..2
        /\ diff(n) \in -1..1 => fix(n) = n
        /\ diff(n) = 2 =>
               fix(n) = IF diff(leftOf(n)) = -1
                        THEN right_rotation(Node(keyOf(n), valueOf(n),
                                 left_rotation(leftOf(n)), rightOf(n)))
                        ELSE right_rotation(n)
        /\ diff(n) = -2 =>
               fix(n) = IF diff(rightOf(n)) = 1
                        THEN left_rotation(Node(keyOf(n), valueOf(n),
                                 leftOf(n), right_rotation(rightOf(n))))
                        ELSE left_rotation(n)
        /\ balanced(fix(n))
        /\ inorder_kv(fix(n)) = inorder_kv(n)

\* The put that made the held tree applied fix to a node of diff 2 whose
\* left child has diff -1: the double rotation gives another, balanced node
\* with the same in-order sequence, where the single right rotation would
\* not.
AvlFixRestoresWitness ==
    /\ avlOp.name = "put"
    /\ \E n \in last_fix_calls :
            /\ diff(n) = 2
            /\ diff(leftOf(n)) = -1
            /\ fix(n) # n
            /\ balanced(fix(n))
            /\ ~balanced(right_rotation(n))
            /\ inorder_kv(fix(n)) = inorder_kv(n)

(***************************************************************************)
(* Properties of delete at a node with two children.                       *)
(***************************************************************************)
\* C26: when the delete that made the held tree reached a node holding its
\* key with two non-empty subtrees, the node it rebuilt, before fix, has the
\* largest key of the left subtree with the value stored with it, as left
\* subtree the old left subtree without that key, and as right subtree the
\* old right subtree; what delete returns there is fix of that node.
AvlDeletePredecessor ==
    LET n == node_at(prevTree, avlOp.key)
    IN  (/\ avlOp.name = "delete"
         /\ ~is_empty(n)
         /\ ~is_empty(leftOf(n))
         /\ ~is_empty(rightOf(n)))
        => LET rebuilt   == delete_rebuilt(n)
               left_keys == {inorder(leftOf(n))[i] :
                                 i \in 1..Len(inorder(leftOf(n)))}
               max_key   == CHOOSE k \in left_keys : \A k2 \in left_keys : k2 <= k
           IN  /\ delete(n, avlOp.key) = fix(rebuilt)
               /\ keyOf(rebuilt) = max_key
               /\ Some(valueOf(rebuilt)) = find(leftOf(n), max_key)
               /\ leftOf(rebuilt) = delete(leftOf(n), max_key)
               /\ inorder_kv(leftOf(rebuilt))
                      = SubSeq(inorder_kv(leftOf(n)), 1,
                               Len(inorder_kv(leftOf(n))) - 1)
               /\ rightOf(rebuilt) = rightOf(n)

\* The delete that made the held tree met its key at a node with two
\* children whose left subtree had two keys or more, the largest of them not
\* at the root of that subtree: the held tree has the predecessor where the
\* key was looked up, and no longer has the key.
AvlDeletePredecessorWitness ==
    LET n == node_at(prevTree, avlOp.key)
    IN  /\ avlOp.name = "delete"
        /\ ~is_empty(n)
        /\ ~is_empty(leftOf(n))
        /\ ~is_empty(rightOf(n))
        /\ ~is_empty(rightOf(leftOf(n)))
        /\ keyOf(delete_rebuilt(n)) # keyOf(leftOf(n))
        /\ find(tree, avlOp.key) = None
        /\ find(tree, keyOf(delete_rebuilt(n))) = Some(valueOf(delete_rebuilt(n)))

(***************************************************************************)
(* Properties of put on a key that the tree holds.                         *)
(***************************************************************************)
\* The tree t with every value replaced by 0: the keys at their positions.
RECURSIVE shape(_)
shape(t) ==
    IF is_empty(t) THEN Empty
    ELSE Node(keyOf(t), 0, shape(leftOf(t)), shape(rightOf(t)))

\* The tree t with v as the value of the node that holds k, and nothing
\* else changed.
RECURSIVE with_value(_, _, _)
with_value(t, k, v) ==
    IF is_empty(t) THEN Empty
    ELSE IF k < keyOf(t)
         THEN Node(keyOf(t), valueOf(t), with_value(leftOf(t), k, v), rightOf(t))
    ELSE IF k = keyOf(t)
         THEN Node(keyOf(t), v, leftOf(t), rightOf(t))
    ELSE Node(keyOf(t), valueOf(t), leftOf(t), with_value(rightOf(t), k, v))

\* C27: when the put that made the held tree was of a key k that the tree
\* already held, the held tree has the shape of the tree before (the same
\* keys at the same positions, the same height at every node), fix rotated
\* nothing on the path, and only the value stored with k may differ.
AvlPutExistingKeepsShape ==
    (avlOp.name = "put" /\ find(prevTree, avlOp.key) # None)
    => /\ shape(tree) = shape(prevTree)
       /\ height(tree) = height(prevTree)
       /\ \A n \in last_fix_calls : fix(n) = n
       /\ tree = with_value(prevTree, avlOp.key, avlOp.value)
       /\ \A k2 \in Keys \ {avlOp.key} : find(tree, k2) = find(prevTree, k2)
       /\ find(tree, avlOp.key) = Some(avlOp.value)

\* The put that made the held tree gave another value to a key held below
\* the root at a node with a left subtree: fix was called on the way and
\* the shape is that of the tree before.
AvlPutExistingWitness ==
    /\ avlOp.name = "put"
    /\ find(prevTree, avlOp.key) # None
    /\ find(prevTree, avlOp.key) # Some(avlOp.value)
    /\ last_fix_calls # {}
    /\ ~is_empty(leftOf(node_at(prevTree, avlOp.key)))
    /\ tree # prevTree
    /\ shape(tree) = shape(prevTree)

(***************************************************************************)
(* trie.rs -- struct Trie<T, U> { stored_value: Vec<U>,                    *)
(* adjecent_nodes: Vec<(T, Trie<T, U>)> }.  A child is the pair            *)
(* <<symbol, subtrie>>.  U's PartialEq is passed as the function U_eq,     *)
(* U_eq[a, b] being a == b.                                                *)
(***************************************************************************)
empty_store == [stored_value |-> <<>>, adjecent_nodes |-> <<>>]

trie_empty == [stored_value |-> <<>>, adjecent_nodes |-> <<>>]

\* The position of the first child whose symbol equals head, as the loops
\* over adjecent_nodes find it; 0 when there is none.
first_child(t, head) ==
    LET S == {i \in 1..Len(t.adjecent_nodes) : t.adjecent_nodes[i][1] = head}
    IN  IF S = {} THEN 0 ELSE CHOOSE i \in S : \A j \in S : i <= j

\* An insert_store that does not store a value the bag already holds.
RECURSIVE insert_store_dedup(_, _, _)
insert_store_dedup(t, value, store) ==
    IF value = <<>>
    THEN IF \E i \in 1..Len(t.stored_value) : t.stored_value[i] = store
         THEN t
         ELSE [t EXCEPT !.stored_value = Append(@, store)]
    ELSE LET head == Head(value)
             tail == Tail(value)
             i    == first_child(t, head)
         IN  IF i # 0
             THEN [t EXCEPT !.adjecent_nodes[i] =
                       <<head, insert_store_dedup(@[2], tail, store)>>]
             ELSE [t EXCEPT !.adjecent_nodes =
                       Append(@, <<head, insert_store_dedup(empty_store, tail, store)>>)]

\* An insert_store that does not look for an existing child and pushes a new
\* one for every symbol.
RECURSIVE insert_store_always_push(_, _, _)
insert_store_always_push(t, value, store) ==
    IF value = <<>>
    THEN [t EXCEPT !.stored_value = Append(@, store)]
    ELSE LET head == Head(value)
             tail == Tail(value)
         IN  [t EXCEPT !.adjecent_nodes =
                  Append(@, <<head, insert_store_always_push(empty_store, tail, store)>>)]

RECURSIVE insert_store(_, _, _)
insert_store(t, value, store) ==
    IF value = <<>>
    THEN [t EXCEPT !.stored_value = Append(@, store)]
    ELSE LET head == Head(value)
             tail == Tail(value)
             i    == first_child(t, head)
         IN  IF i # 0
             THEN [t EXCEPT !.adjecent_nodes[i] =
                       <<head, insert_store(@[2], tail, store)>>]
             ELSE [t EXCEPT !.adjecent_nodes =
                       Append(@, <<head, insert_store(empty_store, tail, store)>>)]

\* A get_store that answers with the bag of the longest existing prefix when
\* a symbol of the path has no child.
RECURSIVE get_store_prefix(_, _)
get_store_prefix(t, value) ==
    IF value = <<>>
    THEN IF t.stored_value = <<>> THEN None ELSE Some(t.stored_value)
    ELSE LET i == first_child(t, Head(value))
         IN  IF i # 0
             THEN get_store_prefix(t.adjecent_nodes[i][2], Tail(value))
             ELSE IF t.stored_value = <<>> THEN None ELSE Some(t.stored_value)

RECURSIVE get_store(_, _)
get_store(t, value) ==
    IF value = <<>>
    THEN LET vr == t.stored_value
         IN  IF vr = <<>> THEN None ELSE Some(vr)
    ELSE LET i == first_child(t, Head(value))
         IN  IF i # 0
             THEN get_store(t.adjecent_nodes[i][2], Tail(value))
             ELSE None

\* Vec::retain with the closure of delete_store: keeps the entries v with
\* v != store.
retain_ne(stored_value, store, U_eq) ==
    LET keep(v) == ~U_eq[v, store]
    IN  SelectSeq(stored_value, keep)

\* Removes only the first entry equal to store.
RECURSIVE remove_first(_, _, _)
remove_first(stored_value, store, U_eq) ==
    IF stored_value = <<>> THEN <<>>
    ELSE IF U_eq[Head(stored_value), store] THEN Tail(stored_value)
    ELSE <<Head(stored_value)>> \o remove_first(Tail(stored_value), store, U_eq)

\* A delete_store that removes only the first entry equal to store.
RECURSIVE delete_store_first_only(_, _, _, _)
delete_store_first_only(t, value, store, U_eq) ==
    IF value = <<>>
    THEN LET new_trie == [t EXCEPT !.stored_value = remove_first(@, store, U_eq)]
         IN  IF Len(t.stored_value) = Len(new_trie.stored_value)
             THEN None
             ELSE Some(new_trie)
    ELSE LET i == first_child(t, Head(value))
         IN  IF i # 0
             THEN LET subt == delete_store_first_only(t.adjecent_nodes[i][2],
                                                      Tail(value), store, U_eq)
                  IN  IF subt = None THEN None
                      ELSE Some([t EXCEPT !.adjecent_nodes[i] =
                                     <<Head(value), subt[1]>>])
             ELSE None

\* A delete_store that returns the unchanged trie where nothing was removed.
RECURSIVE delete_store_always_some(_, _, _, _)
delete_store_always_some(t, value, store, U_eq) ==
    IF value = <<>>
    THEN Some([t EXCEPT !.stored_value = retain_ne(@, store, U_eq)])
    ELSE LET i == first_child(t, Head(value))
         IN  IF i # 0
             THEN LET subt == delete_store_always_some(t.adjecent_nodes[i][2],
                                                       Tail(value), store, U_eq)
                  IN  Some([t EXCEPT !.adjecent_nodes[i] =
                                <<Head(value), subt[1]>>])
             ELSE Some(t)

\* A delete_store that removes the entries equal to store from the bag of
\* every node it passes on the way down as well.
RECURSIVE delete_store_along_path(_, _, _, _)
delete_store_along_path(t, value, store, U_eq) ==
    IF value = <<>>
    THEN LET new_trie == [t EXCEPT !.stored_value = retain_ne(@, store, U_eq)]
         IN  IF Len(t.stored_value) = Len(new_trie.stored_value)
             THEN None
             ELSE Some(new_trie)
    ELSE LET head == Head(value)
             tail == Tail(value)
             i    == first_child(t, head)
         IN  IF i # 0
             THEN LET subt == delete_store_along_path(t.adjecent_nodes[i][2],
                                                      tail, store, U_eq)
                  IN  IF subt = None THEN None
                      ELSE Some([t EXCEPT
                                   !.stored_value = retain_ne(@, store, U_eq),
                                   !.adjecent_nodes[i] = <<head, subt[1]>>])
             ELSE None

RECURSIVE delete_store(_, _, _, _)
delete_store(t, value, store, U_eq) ==
    IF value = <<>>
    THEN LET new_trie == [t EXCEPT !.stored_value = retain_ne(@, store, U_eq)]
         IN  IF Len(t.stored_value) = Len(new_trie.stored_value)
             THEN None
             ELSE Some(new_trie)
    ELSE LET head == Head(value)
             tail == Tail(value)
             i    == first_child(t, head)
         IN  IF i # 0
             THEN LET subt == delete_store(t.adjecent_nodes[i][2], tail, store, U_eq)
                  IN  IF subt = None THEN None
                      ELSE Some([t EXCEPT !.adjecent_nodes[i] = <<head, subt[1]>>])
             ELSE None

\* impl Trie<T> (U = bool): bool's own equality, and the boolean layer.
bool_eq == [a \in BOOLEAN, b \in BOOLEAN |-> a = b]

trie_insert(t, value) == insert_store(t, value, TRUE)

trie_search(t, value) == get_store(t, value) # None

trie_delete(t, value) == delete_store(t, value, TRUE, bool_eq)

(***************************************************************************)
(* Observers of a trie used to state the properties.                       *)
(***************************************************************************)
\* Option<Box<[&U]>> read as a bag: none is the empty bag.
bag_of(r) == IF r = None THEN <<>> ELSE r[1]

\* Whether every symbol of path has a matching child, walked from t.
RECURSIVE has_path(_, _)
has_path(t, path) ==
    \/ path = <<>>
    \/ \E i \in 1..Len(t.adjecent_nodes) :
           /\ t.adjecent_nodes[i][1] = Head(path)
           /\ has_path(t.adjecent_nodes[i][2], Tail(path))

\* The number of values stored in the whole trie.
RECURSIVE count_stored(_)
count_stored(t) ==
    LET sub[i \in 0..Len(t.adjecent_nodes)] ==
            IF i = 0 THEN 0
            ELSE sub[i - 1] + count_stored(t.adjecent_nodes[i][2])
    IN  Len(t.stored_value) + sub[Len(t.adjecent_nodes)]

\* Whether every value stored anywhere in the trie is the sentinel true.
RECURSIVE only_sentinel(_)
only_sentinel(t) ==
    /\ \A i \in 1..Len(t.stored_value) : t.stored_value[i] = TRUE
    /\ \A i \in 1..Len(t.adjecent_nodes) : only_sentinel(t.adjecent_nodes[i][2])

\* Whether no symbol occurs twice among the children of a node, at every
\* node of t.
RECURSIVE unique_children(_)
unique_children(t) ==
    /\ \A i, j \in 1..Len(t.adjecent_nodes) :
           i # j => t.adjecent_nodes[i][1] # t.adjecent_nodes[j][1]
    /\ \A i \in 1..Len(t.adjecent_nodes) : unique_children(t.adjecent_nodes[i][2])

isProperPrefix(q, p) ==
    /\ Len(q) < Len(p)
    /\ \A i \in 1..Len(q) : q[i] = p[i]

(***************************************************************************)
(* Trie specification over Trie<bool, bool>: a holder calls insert_store,  *)
(* insert, delete_store or delete and continues with the returned version  *)
(* (with its own version when delete returns none).  bags records, per     *)
(* path, the values inserted there and not deleted since, in the order of  *)
(* their insertion.                                                        *)
(***************************************************************************)
TrieInit ==
    /\ trie = trie_empty
    /\ bags = [p \in Paths |-> <<>>]

TrieInsertStore ==
    \E p \in Paths, v \in BOOLEAN :
        /\ count_stored(trie) < MaxStored
        /\ trie' = insert_store(trie, p, v)
        /\ bags' = [bags EXCEPT ![p] = Append(@, v)]
        /\ UNCHANGED <<avlVars, mapVars, dequeVars, sharedAvlVars, sharedTrieVars, listVars>>

TrieInsert ==
    \E p \in Paths :
        /\ count_stored(trie) < MaxStored
        /\ trie' = trie_insert(trie, p)
        /\ bags' = [bags EXCEPT ![p] = Append(@, TRUE)]
        /\ UNCHANGED <<avlVars, mapVars, dequeVars, sharedAvlVars, sharedTrieVars, listVars>>

TrieDeleteStore ==
    \E p \in Paths, v \in BOOLEAN :
        LET r == delete_store(trie, p, v, bool_eq)
        IN  /\ trie' = IF r = None THEN trie ELSE r[1]
            /\ bags' = IF r = None THEN bags
                       ELSE [bags EXCEPT ![p] = SelectSeq(@, LAMBDA x : x # v)]
            /\ UNCHANGED <<avlVars, mapVars, dequeVars, sharedAvlVars, sharedTrieVars, listVars>>

TrieDelete ==
    \E p \in Paths :
        LET r == trie_delete(trie, p)
        IN  /\ trie' = IF r = None THEN trie ELSE r[1]
            /\ bags' = IF r = None THEN bags
                       ELSE [bags EXCEPT ![p] = SelectSeq(@, LAMBDA x : x # TRUE)]
            /\ UNCHANGED <<avlVars, mapVars, dequeVars, sharedAvlVars, sharedTrieVars, listVars>>

TrieNext == TrieInsertStore \/ TrieInsert \/ TrieDeleteStore \/ TrieDelete

(***************************************************************************)
(* Properties of the trie, stated of every reachable trie and every path   *)
(* and value an operation can be called with.                              *)
(***************************************************************************)
bag_at(t, p) == bag_of(get_store(t, p))

occurrences(s, v) == Cardinality({i \in 1..Len(s) : s[i] = v})

\* The values inserted at p and not deleted since, in insertion order.
inserted_at(p) == IF p \in Paths THEN bags[p] ELSE <<>>

\* C5: for every path p (the empty path included) and value v,
\* insert_store(p, v) followed by get_store(p) gives the previous bag at p
\* followed by v as its last entry, also when the bag already holds v.
TrieInsertAppends ==
    \A p \in CallPaths, v \in BOOLEAN :
        get_store(insert_store(trie, p, v), p) = Some(Append(bag_at(trie, p), v))

\* The bag at a non-root path holds a value once, and inserting that value
\* again makes it appear twice.
TrieInsertWitness ==
    \E p \in Paths, v \in BOOLEAN :
        /\ p # <<>>
        /\ bags[p] = <<v>>
        /\ bag_at(insert_store(trie, p, v), p) = <<v, v>>

\* C6 as stated: a successful delete_store(p, target) removes only the first
\* entry equal to target from the bag at p and keeps further equal entries.
TrieDeleteRemovesFirstOnly ==
    \A p \in CallPaths, v \in BOOLEAN :
        LET r == delete_store(trie, p, v, bool_eq)
        IN  r # None => bag_at(r[1], p) = remove_first(bag_at(trie, p), v, bool_eq)

\* C6 amended: a successful delete_store(p, target) removes every entry equal
\* to target from the bag at p; the other entries are kept in their order.
TrieDeleteRemovesAllEqual ==
    \A p \in CallPaths, v \in BOOLEAN :
        LET r == delete_store(trie, p, v, bool_eq)
        IN  r # None =>
                /\ bag_at(r[1], p) = SelectSeq(bag_at(trie, p), LAMBDA x : x # v)
                /\ occurrences(bag_at(r[1], p), v) = 0

\* The bag at p holds the target twice with another value between;
\* delete_store leaves only the other value.
TrieDeleteAllWitness ==
    \E p \in Paths, v \in BOOLEAN :
        /\ p # <<>>
        /\ bags[p] = <<v, ~v, v>>
        /\ delete_store(trie, p, v, bool_eq) # None
        /\ bag_at(delete_store(trie, p, v, bool_eq)[1], p) = <<~v>>

\* C7: delete_store(p, target) returns none exactly when a symbol of p has
\* no matching child or the bag at p holds no entry equal to target; on a
\* trie built by the boolean layer (holding only the sentinel), delete(p)
\* returns a trie exactly when search(p) is true.
TrieDeleteAbsence ==
    \A p \in CallPaths :
        /\ \A v \in BOOLEAN :
               delete_store(trie, p, v, bool_eq) = None
                   <=> ( \/ ~has_path(trie, p)
                         \/ occurrences(bag_at(trie, p), v) = 0 )
        /\ only_sentinel(trie) => (trie_delete(trie, p) # None <=> trie_search(trie, p))

\* delete_store returns none on an existing non-root path whose bag is not
\* empty but holds no entry equal to the target, and on a path with an
\* absent symbol.
TrieDeleteAbsenceWitness ==
    \E p \in Paths, q \in CallPaths, v \in BOOLEAN :
        /\ p # <<>>
        /\ has_path(trie, p)
        /\ bags[p] = <<~v>>
        /\ delete_store(trie, p, v, bool_eq) = None
        /\ ~has_path(trie, q)
        /\ delete_store(trie, q, v, bool_eq) = None

\* C8: get_store(p) is none when a symbol of p is absent or nothing is stored
\* at p, and otherwise the values inserted at exactly p and not deleted, in
\* insertion order.
TrieGetStoreExact ==
    \A p \in CallPaths :
        /\ get_store(trie, p) =
               IF inserted_at(p) = <<>> THEN None ELSE Some(inserted_at(p))
        /\ ~has_path(trie, p) => get_store(trie, p) = None

\* A proper prefix q of p holds two values and p's own bag was emptied by a
\* deletion (the node of p is still there): get_store(p) is none and
\* get_store(q) is q's bag in insertion order.
TrieGetStoreWitness ==
    \E p, q \in Paths :
        /\ isProperPrefix(q, p)
        /\ bags[q] = <<TRUE, FALSE>>
        /\ bags[p] = <<>>
        /\ has_path(trie, p)
        /\ get_store(trie, p) = None
        /\ get_store(trie, q) = Some(<<TRUE, FALSE>>)

\* C18: insert_store(p, v) and a successful delete_store(p, v) change only
\* the bag at p: for every path q # p, proper prefixes and proper extensions
\* of p included, get_store(q) on the result is get_store(q) on the trie.
TrieFrame ==
    \A p \in CallPaths, v \in BOOLEAN :
        \A q \in CallPaths \ {p} :
            /\ get_store(insert_store(trie, p, v), q) = get_store(trie, q)
            /\ LET r == delete_store(trie, p, v, bool_eq)
               IN  r # None => get_store(r[1], q) = get_store(trie, q)

\* The root's bag and the bag at a one-symbol path p both hold v: deleting v
\* at p succeeds and leaves the root's bag, and inserting at the root leaves
\* the bag at its extension p.
TrieFrameWitness ==
    \E p \in Paths, v \in BOOLEAN :
        /\ Len(p) = 1
        /\ occurrences(bags[<<>>], v) > 0
        /\ occurrences(bags[p], v) > 0
        /\ delete_store(trie, p, v, bool_eq) # None
        /\ get_store(delete_store(trie, p, v, bool_eq)[1], <<>>) = Some(bags[<<>>])
        /\ get_store(insert_store(trie, <<>>, v), p) = Some(bags[p])

\* C20: in every trie reachable from Trie::empty() by insert_store and
\* delete_store, the child list of each node holds each symbol at most once.
TrieChildrenUnique == unique_children(trie)

\* The root has a child for each symbol, values were inserted twice through
\* one of them and a deletion emptied the bag of the other.
TrieChildrenUniqueWitness ==
    \E p, q \in Paths :
        /\ Len(p) = 1 /\ Len(q) = 1 /\ p # q
        /\ Len(trie.adjecent_nodes) = 2
        /\ Len(bags[p]) = 2
        /\ bags[q] = <<>>
        /\ unique_children(trie)

(***************************************************************************)
(* hashmap.rs -- struct HashMap<K, V> { trie: Trie<bool, KeyValue<K, V>> } *)
(* with struct KeyValue<K, V> { key: K, value: Option<V> }.                *)
(***************************************************************************)
KeyValue(k, v) == [key |-> k, value |-> v]

KeyValues == [key : MapKeys, value : {None} \cup {Some(v) : v \in MapVals}]

\* An equality that compares key and value, as a derived PartialEq would.
KeyValue_eq_derived == [a \in KeyValues, b \in KeyValues |-> a = b]

\* An equality that compares the hashes of the keys instead of the keys.
KeyValue_eq_by_hash ==
    [a \in KeyValues, b \in KeyValues |-> a.key \div 2 = b.key \div 2]

\* impl PartialEq for KeyValue: the keys alone are compared.
KeyValue_eq == [a \in KeyValues, b \in KeyValues |-> a.key = b.key]

HashMap_new == [trie |-> empty_store]

\* The u64 that DefaultHasher gives for a key, through K's Hash.  Keys 2j
\* and 2j + 1 get the same hash, as the keys of handle_hash_collisions do.
hash(key) == key \div 2

\* hash & (1u64 << i) > 0
bit_set(h, i) == (h \div (2 ^ i)) % 2 = 1

get_bits(key) == [n \in 1..HashBits |-> bit_set(hash(key), n - 1)]

\* A put that first removes the entries whose key equals the new key.
map_put_replacing(m, key, value) ==
    LET target == KeyValue(key, None)
        kept   == delete_store(m.trie, get_bits(key), target, KeyValue_eq)
        base   == IF kept = None THEN m.trie ELSE kept[1]
    IN  [trie |-> insert_store(base, get_bits(key), KeyValue(key, Some(value)))]

map_put(m, key, value) ==
    [trie |-> insert_store(m.trie, get_bits(key), KeyValue(key, Some(value)))]

\* A get that takes the first entry of the bag without comparing keys.
map_get_any_key(m, k) ==
    LET store == get_store(m.trie, get_bits(k))
    IN  IF store = None THEN None ELSE store[1][1].value

map_get(m, k) ==
    LET store == get_store(m.trie, get_bits(k))
    IN  IF store = None THEN None
        ELSE LET store_cloned == store[1]
                 S == {i \in 1..Len(store_cloned) : store_cloned[i].key = k}
             IN  IF S = {} THEN None
                 ELSE store_cloned[CHOOSE i \in S : \A j \in S : i <= j].value

\* A delete that removes the first entry with the key and keeps the later ones.
map_delete_first_only(m, key) ==
    LET r == delete_store_first_only(m.trie, get_bits(key), KeyValue(key, None),
                                     KeyValue_eq)
    IN  IF r = None THEN None ELSE Some([trie |-> r[1]])

map_delete(m, key) ==
    LET r == delete_store(m.trie, get_bits(key), KeyValue(key, None), KeyValue_eq)
    IN  IF r = None THEN None ELSE Some([trie |-> r[1]])

\* impl HashMap<K>: the set, a map whose values are of the unit type ().
unit == 1

map_insert(m, value) == map_put(m, value, unit)

map_search(m, value) == map_get(m, value) # None

(***************************************************************************)
(* Hash-map specification: a holder calls put, insert or delete and goes on *)
(* with the returned map (its own map when delete returns none).  puts     *)
(* records, per key, the values put for it since it was last deleted, in   *)
(* the order of the puts.                                                  *)
(***************************************************************************)
MapInit ==
    /\ map = HashMap_new
    /\ puts = [k \in MapKeys |-> <<>>]

MapPut ==
    \E k \in MapKeys, v \in MapVals :
        /\ count_stored(map.trie) < MaxEntries
        /\ map' = map_put(map, k, v)
        /\ puts' = [puts EXCEPT ![k] = Append(@, v)]
        /\ UNCHANGED <<avlVars, trieVars, dequeVars, sharedAvlVars, sharedTrieVars, listVars>>

MapInsert ==
    \E k \in MapKeys :
        /\ count_stored(map.trie) < MaxEntries
        /\ map' = map_insert(map, k)
        /\ puts' = [puts EXCEPT ![k] = Append(@, unit)]
        /\ UNCHANGED <<avlVars, trieVars, dequeVars, sharedAvlVars, sharedTrieVars, listVars>>

MapDelete ==
    \E k \in MapKeys :
        LET r == map_delete(map, k)
        IN  /\ map' = IF r = None THEN map ELSE r[1]
            /\ puts' = IF r = None THEN puts ELSE [puts EXCEPT ![k] = <<>>]
            /\ UNCHANGED <<avlVars, trieVars, dequeVars, sharedAvlVars, sharedTrieVars, listVars>>

MapNext == MapPut \/ MapInsert \/ MapDelete

(***************************************************************************)
(* Properties of the hash map, stated of every reachable map and every key *)
(* and value an operation can be called with.                              *)
(***************************************************************************)
entries_at(m, k) == bag_at(m.trie, get_bits(k))

\* C9: for distinct keys k1, k2 with the same hash path and a map
\* holding neither, after put(k1, v1) and put(k2, v2), in either order,
\* get(k1) returns v1 and get(k2) returns v2.
MapCollisionIndependence ==
    \A k1, k2 \in MapKeys, v1, v2 \in MapVals :
        ( /\ k1 # k2
          /\ get_bits(k1) = get_bits(k2)
          /\ map_get(map, k1) = None
          /\ map_get(map, k2) = None )
        => LET m2 == map_put(map_put(map, k1, v1), k2, v2)
           IN  /\ map_get(m2, k1) = Some(v1)
               /\ map_get(m2, k2) = Some(v2)

\* Two distinct keys with the same path were each put once with different
\* values: they share one bag of two entries and get returns each one's value.
MapCollisionWitness ==
    \E k1, k2 \in MapKeys :
        /\ k1 # k2
        /\ get_bits(k1) = get_bits(k2)
        /\ Len(puts[k1]) = 1 /\ Len(puts[k2]) = 1
        /\ puts[k1] # puts[k2]
        /\ Len(entries_at(map, k1)) = 2
        /\ entries_at(map, k1)[1].key = k2
        /\ map_get(map, k1) = Some(puts[k1][1])
        /\ map_get(map, k2) = Some(puts[k2][1])

\* C10: put appends an entry and removes none, and get(k) returns the value
\* of the oldest entry for k; for a map without k, put(k, v1) then
\* put(k, v2) then get(k) gives v1.
MapGetOldest ==
    /\ \A k \in MapKeys :
           map_get(map, k) = IF puts[k] = <<>> THEN None ELSE Some(Head(puts[k]))
    /\ \A k \in MapKeys, v1, v2 \in MapVals :
           /\ entries_at(map_put(map, k, v1), k)
                  = Append(entries_at(map, k), KeyValue(k, Some(v1)))
           /\ map_get(map, k) = None
                  => map_get(map_put(map_put(map, k, v1), k, v2), k) = Some(v1)

\* A key was put twice with different values: get returns the first.
MapGetOldestWitness ==
    \E k \in MapKeys :
        /\ Len(puts[k]) = 2
        /\ puts[k][1] # puts[k][2]
        /\ Len(entries_at(map, k)) = 3
        /\ map_get(map, k) = Some(puts[k][1])

(***************************************************************************)
(* Properties of HashMap::delete.                                          *)
(***************************************************************************)
entries_with_key(s, k) == SelectSeq(s, LAMBDA e : e.key = k)

entries_without_key(s, k) == SelectSeq(s, LAMBDA e : e.key # k)

\* C11 as stated: delete(k) returns none exactly when the bag at k's path
\* holds no entry with key k; otherwise the bag of the returned map is one
\* entry shorter, and a key with two entries keeps one of them.
MapDeleteRemovesOne ==
    \A k \in MapKeys :
        LET r   == map_delete(map, k)
            bag == entries_at(map, k)
        IN  /\ (r = None) <=> (entries_with_key(bag, k) = <<>>)
            /\ r # None =>
                   /\ Len(entries_at(r[1], k)) = Len(bag) - 1
                   /\ Len(entries_with_key(entries_at(r[1], k), k))
                          = Len(entries_with_key(bag, k)) - 1

\* C11 as amended: delete(k) returns none exactly when the bag at k's path
\* holds no entry with key k; otherwise the bag of the returned map is the
\* old bag without every entry whose key is k, the other entries in order.
MapDeleteRemovesAllForKey ==
    \A k \in MapKeys :
        LET r   == map_delete(map, k)
            bag == entries_at(map, k)
        IN  /\ (r = None) <=> (entries_with_key(bag, k) = <<>>)
            /\ r # None => entries_at(r[1], k) = entries_without_key(bag, k)

\* A key put twice shares its bag with another key put once: delete of the
\* first key returns a map whose bag holds the other key's entry alone.
MapDeleteAllWitness ==
    \E k, k2 \in MapKeys :
        /\ k # k2
        /\ get_bits(k) = get_bits(k2)
        /\ Len(puts[k]) = 2 /\ Len(puts[k2]) = 1
        /\ Len(entries_at(map, k)) = 3
        /\ map_delete(map, k) # None
        /\ entries_at(map_delete(map, k)[1], k) = <<KeyValue(k2, Some(puts[k2][1]))>>

\* C12: for every key k that get / search finds, put or inserted once or
\* more often, delete(k) returns a map in which get(k) is none and
\* search(k) is false.
MapDeleteMakesAbsent ==
    \A k \in MapKeys :
        (map_get(map, k) # None \/ map_search(map, k))
        => LET r == map_delete(map, k)
           IN  /\ r # None
               /\ map_get(r[1], k) = None
               /\ ~map_search(r[1], k)

\* A key with more than one entry, found by get, is not found after delete.
MapDeleteAbsentWitness ==
    \E k \in MapKeys :
        /\ Len(puts[k]) >= 2
        /\ Len(entries_with_key(entries_at(map, k), k)) = Len(puts[k])
        /\ map_search(map, k)
        /\ map_delete(map, k) # None
        /\ map_get(map_delete(map, k)[1], k) = None

\* C19: for keys k # k2, when delete(k) returns a map, get(k2) on it equals
\* get(k2) on the map delete was called on, also when k and k2 have the same
\* path and share one bag.
MapDeleteFrame ==
    \A k, k2 \in MapKeys :
        k # k2 =>
            LET r == map_delete(map, k)
            IN  r # None => map_get(r[1], k2) = map_get(map, k2)

\* Two keys share a bag in which an entry of k comes before the entry of k2:
\* delete(k) returns a map and get(k2) still gives k2's value.
MapDeleteFrameWitness ==
    \E k, k2 \in MapKeys :
        /\ k # k2
        /\ get_bits(k) = get_bits(k2)
        /\ puts[k] # <<>> /\ puts[k2] # <<>>
        /\ entries_at(map, k)[1].key = k
        /\ map_delete(map, k) # None
        /\ map_get(map_delete(map, k)[1], k2) = Some(puts[k2][1])
        /\ map_get(map, k2) = Some(puts[k2][1])

(***************************************************************************)
(* list.rs -- struct List<T> { head: RefCounter<ListNode<T>>, len: usize } *)
(* The chain of nodes from head is the sequence of its values, the node    *)
(* ListNode::Empty being <<>>; len is the field the code keeps beside it.  *)
(***************************************************************************)
list_empty == [head |-> <<>>, len |-> 0]

push_front_rc_at_back(l, rc_value) ==
    [head |-> l.head \o <<rc_value>>, len |-> l.len + 1]

push_front_rc(l, rc_value) ==
    [head |-> <<rc_value>> \o l.head, len |-> l.len + 1]

list_push_front(l, value) == push_front_rc(l, value)

list_length(l) == l.len

list_is_empty(l) == list_length(l) = 0

pop_front_rc(l) ==
    IF l.head = <<>> THEN None
    ELSE Some(<<Head(l.head), [head |-> Tail(l.head), len |-> l.len - 1]>>)

list_pop_front_len_kept(l) ==
    IF l.head = <<>> THEN None
    ELSE Some(<<Head(l.head), [head |-> Tail(l.head), len |-> l.len]>>)

list_pop_front(l) ==
    IF l.head = <<>> THEN None
    ELSE Some(<<Head(l.head), [head |-> Tail(l.head), len |-> l.len - 1]>>)

\* Option::map of |(e, _)| e over pop_front.
list_front(l) ==
    IF list_pop_front(l) = None THEN None ELSE Some(list_pop_front(l)[1][1])

\* Option::unwrap of a value that is Some.
unwrap(o) == o[1]

\* The while loop of reverse: node is what is left to visit, last_node the
\* chain built so far.
RECURSIVE reverse_loop(_, _)
reverse_loop(node, last_node) ==
    IF node = <<>> THEN last_node
    ELSE reverse_loop(Tail(node), <<Head(node)>> \o last_node)

reverse(l) == [head |-> reverse_loop(l.head, <<>>), len |-> l.len]

\* One for loop of split: n iterations, each moving the front of current to
\* the front of acc; gives acc and current after the loop.
RECURSIVE split_loop(_, _, _)
split_loop(n, acc, current) ==
    IF n = 0 THEN <<acc, current>>
    ELSE LET popped == unwrap(pop_front_rc(current))
         IN  split_loop(n - 1, push_front_rc(acc, popped[1]), popped[2])

split_not_reversed(l) ==
    LET half       == list_length(l) \div 2
        other_half == list_length(l) - half
        loop1      == split_loop(half, list_empty, l)
        loop2      == split_loop(other_half, list_empty, loop1[2])
    IN  <<loop1[1], loop2[1]>>

split(l) ==
    LET half       == list_length(l) \div 2
        other_half == list_length(l) - half
        loop1      == split_loop(half, list_empty, l)
        loop2      == split_loop(other_half, list_empty, loop1[2])
    IN  <<reverse(loop1[1]), reverse(loop2[1])>>

\* The values a ListIterator yields, in order: the chain from head.
list_iter(l) == l.head

(***************************************************************************)
(* List specification: a holder starts from List::empty(), calls           *)
(* push_front, pop_front, reverse or split and goes on with the returned   *)
(* list (one of the two that split returns; its own list when pop_front    *)
(* returns none).                                                          *)
(***************************************************************************)
ListInit == list = list_empty

ListPushFront ==
    \E v \in Elems :
        /\ list_length(list) < MaxListLen
        /\ list' = list_push_front(list, v)
        /\ UNCHANGED <<avlVars, trieVars, mapVars, dequeVars, sharedAvlVars, sharedTrieVars>>

ListPopFront ==
    LET r == list_pop_front(list)
    IN  /\ list' = IF r = None THEN list ELSE r[1][2]
        /\ UNCHANGED <<avlVars, trieVars, mapVars, dequeVars, sharedAvlVars, sharedTrieVars>>

ListReverse ==
    /\ list' = reverse(list)
    /\ UNCHANGED <<avlVars, trieVars, mapVars, dequeVars, sharedAvlVars, sharedTrieVars>>

ListSplit ==
    \E i \in {1, 2} :
        /\ list' = split(list)[i]
        /\ UNCHANGED <<avlVars, trieVars, mapVars, dequeVars, sharedAvlVars, sharedTrieVars>>

ListNext == ListPushFront \/ ListPopFront \/ ListReverse \/ ListSplit

(***************************************************************************)
(* Properties of the list, stated of every reachable list and every value  *)
(* an operation can be called with.                                        *)
(***************************************************************************)
\* C24: for every reachable list l and value x, l.push_front(x).pop_front()
\* returns x with a list equal to l (the same elements and the same len),
\* front() of l.push_front(x) is x, push_front gives a list one longer and a
\* successful pop_front one shorter, and pop_front and front return none on
\* the empty list and only there.
ListIsStack ==
    /\ \A x \in Elems :
           LET pushed == list_push_front(list, x)
           IN  /\ list_pop_front(pushed) = Some(<<x, list>>)
               /\ list_front(pushed) = Some(x)
               /\ list_length(pushed) = list_length(list) + 1
    /\ list_pop_front(list) # None =>
           list_length(list_pop_front(list)[1][2]) = list_length(list) - 1
    /\ list_is_empty(list) <=> list_pop_front(list) = None
    /\ list_is_empty(list) <=> list_front(list) = None
    /\ list_is_empty(list) <=> list_iter(list) = <<>>

\* A list of two elements or more whose first two differ: a push of a third
\* value and a pop give the list back, and a pop gives the first element
\* and a list whose front is the second.
ListIsStackWitness ==
    /\ list_length(list) >= 2
    /\ list_iter(list)[1] # list_iter(list)[2]
    /\ list_front(list) = Some(list_iter(list)[1])
    /\ list_front(list_pop_front(list)[1][2]) = Some(list_iter(list)[2])
    /\ \E x \in Elems :
           /\ x # list_iter(list)[1]
           /\ list_pop_front(list_push_front(list, x)) = Some(<<x, list>>)

deque_empty == [head |-> list_empty, tail |-> list_empty]

deque_length_head_only(d) == list_length(d.head)

deque_length(d) == list_length(d.head) + list_length(d.tail)

deque_is_empty(d) == deque_length(d) = 0

balance(d) ==
    IF list_is_empty(d.head)
    THEN LET s        == split(d.tail)
             tail     == s[1]
             rev_head == s[2]
             head     == reverse(rev_head)
         IN  [head |-> head, tail |-> tail]
    ELSE IF list_is_empty(d.tail)
         THEN LET s        == split(d.head)
                  head     == s[1]
                  rev_tail == s[2]
                  tail     == reverse(rev_tail)
              IN  [head |-> head, tail |-> tail]
         ELSE d

deque_push_front(d, value) ==
    balance([head |-> list_push_front(d.head, value), tail |-> d.tail])

deque_push_back(d, value) ==
    balance([head |-> d.head, tail |-> list_push_front(d.tail, value)])

\* Some(<<a, deque>>) is the pair (a, Self { .. }) the code returns.
deque_pop_front(d) ==
    IF deque_is_empty(d) THEN None
    ELSE IF list_is_empty(d.head)
         THEN LET ab == unwrap(list_pop_front(d.tail))
              IN  Some(<<ab[1], [head |-> d.head, tail |-> ab[2]]>>)
         ELSE LET ab == unwrap(list_pop_front(d.head))
              IN  Some(<<ab[1], [head |-> ab[2], tail |-> d.tail]>>)

deque_pop_back(d) ==
    IF deque_is_empty(d) THEN None
    ELSE IF list_is_empty(d.tail)
         THEN LET ab == unwrap(list_pop_front(d.head))
              IN  Some(<<ab[1], [head |-> ab[2], tail |-> d.tail]>>)
         ELSE LET ab == unwrap(list_pop_front(d.tail))
              IN  Some(<<ab[1], [head |-> d.head, tail |-> ab[2]]>>)

\* The values a DequeIterator yields, in order: those of head's iterator,
\* then those of the iterator of the reversed tail.
deque_iter(d) == list_iter(d.head) \o list_iter(reverse(d.tail))

(***************************************************************************)
(* Deque specification: a holder starts from Deque::empty(), calls         *)
(* push_front, push_back, pop_front or pop_back and goes on with the       *)
(* returned deque (with its own deque when a pop returns none).  elems is  *)
(* the abstract sequence: push_front prepends to it, push_back appends,    *)
(* pop_front takes its first element away and pop_back its last.           *)
(***************************************************************************)
DequeInit ==
    /\ deque = deque_empty
    /\ elems = <<>>

DequePushFront ==
    \E v \in Elems :
        /\ deque_length(deque) < MaxDequeLen
        /\ deque' = deque_push_front(deque, v)
        /\ elems' = <<v>> \o elems
        /\ UNCHANGED <<avlVars, trieVars, mapVars, sharedAvlVars, sharedTrieVars, listVars>>

DequePushBack ==
    \E v \in Elems :
        /\ deque_length(deque) < MaxDequeLen
        /\ deque' = deque_push_back(deque, v)
        /\ elems' = Append(elems, v)
        /\ UNCHANGED <<avlVars, trieVars, mapVars, sharedAvlVars, sharedTrieVars, listVars>>

DequePopFront ==
    LET r == deque_pop_front(deque)
    IN  /\ deque' = IF r = None THEN deque ELSE r[1][2]
        /\ elems' = IF r = None THEN elems ELSE Tail(elems)
        /\ UNCHANGED <<avlVars, trieVars, mapVars, sharedAvlVars, sharedTrieVars, listVars>>

DequePopBack ==
    LET r == deque_pop_back(deque)
    IN  /\ deque' = IF r = None THEN deque ELSE r[1][2]
        /\ elems' = IF r = None THEN elems
                    ELSE SubSeq(elems, 1, Len(elems) - 1)
        /\ UNCHANGED <<avlVars, trieVars, mapVars, sharedAvlVars, sharedTrieVars, listVars>>

DequeNext == DequePushFront \/ DequePushBack \/ DequePopFront \/ DequePopBack

(***************************************************************************)
(* Properties of the deque, stated of every reachable deque.               *)
(***************************************************************************)
\* C13: pop_front on a non-empty deque returns the first element of the
\* abstract sequence and a deque that holds the remaining elements in the
\* same order.
DequePopFrontOrder ==
    elems # <<>>
    => LET r == deque_pop_front(deque)
       IN  /\ r # None
           /\ r[1][1] = Head(elems)
           /\ deque_iter(r[1][2]) = Tail(elems)

\* C14: pop_back on a non-empty deque returns the last element of the
\* abstract sequence and a deque that holds the remaining elements in the
\* same order.
DequePopBackOrder ==
    elems # <<>>
    => LET r == deque_pop_back(deque)
       IN  /\ r # None
           /\ r[1][1] = elems[Len(elems)]
           /\ deque_iter(r[1][2]) = SubSeq(elems, 1, Len(elems) - 1)

\* C22: the length of every reachable deque is the number of pushes less the
\* number of successful pops made to reach it (the length of the abstract
\* sequence); push_front and push_back give a deque one element longer, a
\* successful pop_front or pop_back one element shorter, and pop_front and
\* pop_back return none exactly when the length is 0.
DequeLengthCounts ==
    /\ deque_length(deque) = Len(elems)
    /\ deque_is_empty(deque) <=> deque_length(deque) = 0
    /\ \A v \in Elems :
           /\ deque_length(deque_push_front(deque, v)) = deque_length(deque) + 1
           /\ deque_length(deque_push_back(deque, v)) = deque_length(deque) + 1
    /\ deque_pop_front(deque) = None <=> deque_length(deque) = 0
    /\ deque_pop_back(deque) = None <=> deque_length(deque) = 0
    /\ deque_pop_front(deque) # None =>
           deque_length(deque_pop_front(deque)[1][2]) = deque_length(deque) - 1
    /\ deque_pop_back(deque) # None =>
           deque_length(deque_pop_back(deque)[1][2]) = deque_length(deque) - 1

\* A deque left by pops with an empty head and two elements or more in its
\* tail: push_back makes balance split the tail, and the result is one
\* element longer; pop_front takes from the tail and leaves one element
\* less.
DequeLengthWitness ==
    /\ list_is_empty(deque.head)
    /\ list_length(deque.tail) >= 2
    /\ Len(elems) = deque_length(deque)
    /\ \A v \in Elems :
           LET d == deque_push_back(deque, v)
           IN  /\ ~list_is_empty(d.head)
               /\ deque_length(d) = deque_length(deque) + 1
    /\ deque_pop_front(deque) # None
    /\ deque_length(deque_pop_front(deque)[1][2]) = deque_length(deque) - 1

\* C23: the iterator of every reachable deque yields the abstract sequence
\* (push_front prepends, push_back appends, pop_front takes the first
\* element away and pop_back the last), every element once, front to back.
DequeIterOrder == deque_iter(deque) = elems

(***************************************************************************)
(* Where list.rs and deque.rs can panic: Option::unwrap of None, and       *)
(* self.len - 1 on a usize that is 0.  Each definition tells whether the   *)
(* call it is named after reaches such a point.                            *)
(***************************************************************************)
\* len: self.len - 1 in pop_front_rc and pop_front, computed when head is a
\* ListNode::Value.
pop_front_underflows(l) == l.head # <<>> /\ l.len = 0

\* One for loop of split, n iterations from current: pop_front_rc gives
\* None to unwrap, or its len - 1 underflows.
RECURSIVE split_loop_panics(_, _)
split_loop_panics(n, current) ==
    /\ n > 0
    /\ \/ pop_front_rc(current) = None
       \/ pop_front_underflows(current)
       \/ split_loop_panics(n - 1, unwrap(pop_front_rc(current))[2])

split_panics(l) ==
    LET half       == list_length(l) \div 2
        other_half == list_length(l) - half
    IN  \/ split_loop_panics(half, l)
        \/ split_loop_panics(other_half, split_loop(half, list_empty, l)[2])

balance_panics(d) ==
    IF list_is_empty(d.head) THEN split_panics(d.tail)
    ELSE IF list_is_empty(d.tail) THEN split_panics(d.head)
         ELSE FALSE

deque_push_front_panics(d, value) ==
    balance_panics([head |-> list_push_front(d.head, value), tail |-> d.tail])

deque_push_back_panics(d, value) ==
    balance_panics([head |-> d.head, tail |-> list_push_front(d.tail, value)])

deque_pop_front_panics(d) ==
    /\ ~deque_is_empty(d)
    /\ IF list_is_empty(d.head)
       THEN pop_front_underflows(d.tail) \/ list_pop_front(d.tail) = None
       ELSE pop_front_underflows(d.head) \/ list_pop_front(d.head) = None

deque_pop_back_panics(d) ==
    /\ ~deque_is_empty(d)
    /\ IF list_is_empty(d.tail)
       THEN pop_front_underflows(d.head) \/ list_pop_front(d.head) = None
       ELSE pop_front_underflows(d.tail) \/ list_pop_front(d.tail) = None

\* The number of nodes of a list: the ListNode::Value nodes from head.
node_count(l) == Len(l.head)

\* C21: on every reachable deque no operation panics: push_front and
\* push_back (balance and the unwraps of split in it), pop_front and
\* pop_back meet no None in an unwrap, and on the two lists of the deque
\* split meets no None, len - 1 does not underflow in pop_front, and the len
\* field equals the number of nodes.
NoPanics ==
    /\ \A v \in Elems :
           /\ ~deque_push_front_panics(deque, v)
           /\ ~deque_push_back_panics(deque, v)
    /\ ~deque_pop_front_panics(deque)
    /\ ~deque_pop_back_panics(deque)
    /\ \A l \in {deque.head, deque.tail} :
           /\ list_length(l) = node_count(l)
           /\ ~split_panics(l)
           /\ ~pop_front_underflows(l)

\* A deque whose tail is empty and whose head has two elements or more:
\* pop_back takes the unwrap of head.pop_front(), push_front splits a head
\* of three elements or more, and neither panics.
NoPanicsWitness ==
    /\ list_is_empty(deque.tail)
    /\ list_length(deque.head) >= 2
    /\ deque_pop_back(deque) # None
    /\ ~deque_pop_back_panics(deque)
    /\ \A v \in Elems :
           /\ ~deque_push_front_panics(deque, v)
           /\ list_length(deque_push_front(deque, v).tail) >= 1

\* The same, of every reachable list: the len field equals the number of
\* nodes, split meets no None, and len - 1 does not underflow in pop_front.
ListNoPanics ==
    /\ list_length(list) = node_count(list)
    /\ ~split_panics(list)
    /\ ~pop_front_underflows(list)
    /\ \A i \in {1, 2} : list_length(split(list)[i]) = node_count(split(list)[i])

(***************************************************************************)
(* The AVL tree with its reference-counted nodes laid out in a memory.     *)
(* avl.rs holds the subtrees of a node as RefCounter<AVL<K, V>>: cloning   *)
(* one copies the pointer, and versions of a tree share nodes.  cells is   *)
(* the memory: cells[a] is the node that RefCounter a points to.  A node   *)
(* is <<key, value, left, right>> as before, left and right now being      *)
(* addresses.  AVL::Empty has no fields; every RefCounter of it is the     *)
(* address 0 and takes no cell.  An operation gets the memory and gives    *)
(* the memory after it with its result: <<cells, node>>.                   *)
(***************************************************************************)
\* RefCounter::new(node): a new cell after the existing ones.
RefCounter_new(cells, node) == <<Append(cells, node), Len(cells) + 1>>

\* RefCounter::new of a tree: AVL::Empty takes no cell.
RefCounter_new_AVL(cells, node) ==
    IF is_empty(node) THEN <<cells, 0>> ELSE RefCounter_new(cells, node)

\* RefCounter::as_ref: the node an address points to.
as_ref(cells, a) == IF a = 0 THEN Empty ELSE cells[a]

RECURSIVE h_height(_, _)
h_height(cells, t) ==
    IF is_empty(t) THEN 0
    ELSE 1 + max(h_height(cells, as_ref(cells, leftOf(t))),
                 h_height(cells, as_ref(cells, rightOf(t))))

h_diff(cells, t) ==
    IF is_empty(t) THEN 0
    ELSE h_height(cells, as_ref(cells, leftOf(t)))
             - h_height(cells, as_ref(cells, rightOf(t)))

RECURSIVE h_find(_, _, _)
h_find(cells, t, target) ==
    IF is_empty(t) THEN None
    ELSE IF target < keyOf(t) THEN h_find(cells, as_ref(cells, leftOf(t)), target)
    ELSE IF target = keyOf(t) THEN Some(valueOf(t))
    ELSE h_find(cells, as_ref(cells, rightOf(t)), target)

h_right_rotation(cells, t) ==
    IF ~is_empty(t) /\ ~is_empty(as_ref(cells, leftOf(t)))
    THEN LET lt == as_ref(cells, leftOf(t))
             r  == RefCounter_new_AVL(cells,
                       Node(keyOf(t), valueOf(t), rightOf(lt), rightOf(t)))
         IN  <<r[1], Node(keyOf(lt), valueOf(lt), leftOf(lt), r[2])>>
    ELSE <<cells, t>>

h_left_rotation(cells, t) ==
    IF ~is_empty(t) /\ ~is_empty(as_ref(cells, rightOf(t)))
    THEN LET rt == as_ref(cells, rightOf(t))
             l  == RefCounter_new_AVL(cells,
                       Node(keyOf(t), valueOf(t), leftOf(t), leftOf(rt)))
         IN  <<l[1], Node(keyOf(rt), valueOf(rt), l[2], rightOf(rt))>>
    ELSE <<cells, t>>

h_right_fix(cells, t) ==
    IF ~is_empty(t)
    THEN IF h_diff(cells, as_ref(cells, leftOf(t))) = -1
         THEN LET rot == h_left_rotation(cells, as_ref(cells, leftOf(t)))
                  l   == RefCounter_new_AVL(rot[1], rot[2])
              IN  h_right_rotation(l[1],
                      Node(keyOf(t), valueOf(t), l[2], rightOf(t)))
         ELSE h_right_rotation(cells, t)
    ELSE <<cells, t>>

h_left_fix(cells, t) ==
    IF ~is_empty(t)
    THEN IF h_diff(cells, as_ref(cells, rightOf(t))) = 1
         THEN LET rot == h_right_rotation(cells, as_ref(cells, rightOf(t)))
                  r   == RefCounter_new_AVL(rot[1], rot[2])
              IN  h_left_rotation(r[1],
                      Node(keyOf(t), valueOf(t), leftOf(t), r[2]))
         ELSE h_left_rotation(cells, t)
    ELSE <<cells, t>>

h_fix(cells, t) ==
    CASE h_diff(cells, t) = 2  -> h_right_fix(cells, t)
      [] h_diff(cells, t) = -2 -> h_left_fix(cells, t)
      [] OTHER                 -> <<cells, t>>

\* A put that writes the changed subtree into the cell of the old subtree
\* instead of a new cell.
RECURSIVE h_put_rc_in_place(_, _, _, _)
h_put_rc_in_place(cells, t, k, v) ==
    IF is_empty(t) THEN <<cells, Node(k, v, 0, 0)>>
    ELSE IF k < keyOf(t)
         THEN LET sub == h_put_rc_in_place(cells, as_ref(cells, leftOf(t)), k, v)
                  l   == IF leftOf(t) = 0 THEN RefCounter_new_AVL(sub[1], sub[2])
                         ELSE <<[sub[1] EXCEPT ![leftOf(t)] = sub[2]], leftOf(t)>>
              IN  h_fix(l[1], Node(keyOf(t), valueOf(t), l[2], rightOf(t)))
    ELSE IF k = keyOf(t)
         THEN <<cells, Node(k, v, leftOf(t), rightOf(t))>>
    ELSE LET sub == h_put_rc_in_place(cells, as_ref(cells, rightOf(t)), k, v)
             r   == IF rightOf(t) = 0 THEN RefCounter_new_AVL(sub[1], sub[2])
                    ELSE <<[sub[1] EXCEPT ![rightOf(t)] = sub[2]], rightOf(t)>>
         IN  h_fix(r[1], Node(keyOf(t), valueOf(t), leftOf(t), r[2]))

RECURSIVE h_put_rc(_, _, _, _)
h_put_rc(cells, t, k, v) ==
    IF is_empty(t) THEN <<cells, Node(k, v, 0, 0)>>
    ELSE IF k < keyOf(t)
         THEN LET sub == h_put_rc(cells, as_ref(cells, leftOf(t)), k, v)
                  l   == RefCounter_new_AVL(sub[1], sub[2])
              IN  h_fix(l[1], Node(keyOf(t), valueOf(t), l[2], rightOf(t)))
    ELSE IF k = keyOf(t)
         THEN <<cells, Node(k, v, leftOf(t), rightOf(t))>>
    ELSE LET sub == h_put_rc(cells, as_ref(cells, rightOf(t)), k, v)
             r   == RefCounter_new_AVL(sub[1], sub[2])
         IN  h_fix(r[1], Node(keyOf(t), valueOf(t), leftOf(t), r[2]))

h_put(cells, t, k, v) == h_put_rc(cells, t, k, v)

RECURSIVE h_find_max(_, _)
h_find_max(cells, t) ==
    IF is_empty(t) THEN None
    ELSE IF is_empty(as_ref(cells, rightOf(t))) THEN Some(<<keyOf(t), valueOf(t)>>)
    ELSE h_find_max(cells, as_ref(cells, rightOf(t)))

RECURSIVE h_delete(_, _, _)
h_delete(cells, t, target) ==
    IF is_empty(t) THEN <<cells, Empty>>
    ELSE IF target < keyOf(t)
         THEN LET left_deleted == h_delete(cells, as_ref(cells, leftOf(t)), target)
                  l            == RefCounter_new_AVL(left_deleted[1], left_deleted[2])
              IN  h_fix(l[1], Node(keyOf(t), valueOf(t), l[2], rightOf(t)))
    ELSE IF target = keyOf(t)
         THEN IF is_empty(as_ref(cells, leftOf(t)))
              THEN <<cells, as_ref(cells, rightOf(t))>>
              ELSE IF is_empty(as_ref(cells, rightOf(t)))
              THEN <<cells, as_ref(cells, leftOf(t))>>
              ELSE LET inorder_predecessor ==
                           h_find_max(cells, as_ref(cells, leftOf(t)))
                   IN  IF inorder_predecessor # None
                       THEN LET pred == inorder_predecessor[1]
                                left_deleted ==
                                    h_delete(cells, as_ref(cells, leftOf(t)), pred[1])
                                l == RefCounter_new_AVL(left_deleted[1], left_deleted[2])
                            IN  h_fix(l[1], Node(pred[1], pred[2], l[2], rightOf(t)))
                       ELSE <<cells, t>>
    ELSE LET right_deleted == h_delete(cells, as_ref(cells, rightOf(t)), target)
             r             == RefCounter_new_AVL(right_deleted[1], right_deleted[2])
         IN  h_fix(r[1], Node(keyOf(t), valueOf(t), leftOf(t), r[2]))

\* The tree value that the node t stands for in the memory cells.
RECURSIVE tree_of(_, _)
tree_of(cells, t) ==
    IF is_empty(t) THEN Empty
    ELSE Node(keyOf(t), valueOf(t),
              tree_of(cells, as_ref(cells, leftOf(t))),
              tree_of(cells, as_ref(cells, rightOf(t))))

(***************************************************************************)
(* Specification of two holders of AVL trees in one memory.  Each holder   *)
(* has a version (held); it calls put or delete on its version and goes on *)
(* with the result, or takes a clone of the other holder's version, as     *)
(* test_avl_set and test_avl_map do (let l2 = l.clone().put(..)).  A cell  *)
(* that no held version reaches any more is dropped, as a RefCounter drops *)
(* what its last pointer left, and the cells are numbered in the order in  *)
(* which the held versions reach them.  seen records what find gave for    *)
(* every key on a holder's version when the holder got that version.       *)
(***************************************************************************)
Holders == {"l", "l2"}

finds(cs, t) == [k \in SharedKeys |-> h_find(cs, t, k)]

\* The addresses of the cells of the tree of node t: a parent before its
\* children, the left subtree before the right.
RECURSIVE cells_of(_, _)
cells_of(cs, t) ==
    IF is_empty(t) THEN <<>>
    ELSE LET below(a) == IF a = 0 THEN <<>> ELSE <<a>> \o cells_of(cs, cs[a])
         IN  below(leftOf(t)) \o below(rightOf(t))

\* s without the repetitions of an element after its first occurrence.
RECURSIVE first_occurrences(_)
first_occurrences(s) ==
    IF s = <<>> THEN <<>>
    ELSE LET init == SubSeq(s, 1, Len(s) - 1)
             last == s[Len(s)]
         IN  IF \E i \in 1..Len(init) : init[i] = last
             THEN first_occurrences(init)
             ELSE Append(first_occurrences(init), last)

\* The memory and the held versions once the cells that no version in
\* roots reaches are dropped.
drop_unreached(cs, roots) ==
    LET live == first_occurrences(cells_of(cs, roots["l"]) \o cells_of(cs, roots["l2"]))
        new_address(a) == IF a = 0 THEN 0 ELSE CHOOSE i \in 1..Len(live) : live[i] = a
        moved(t) == IF is_empty(t) THEN t
                    ELSE Node(keyOf(t), valueOf(t),
                              new_address(leftOf(t)), new_address(rightOf(t)))
    IN  [memory |-> [i \in 1..Len(live) |-> moved(cs[live[i]])],
         held   |-> [h \in Holders |-> moved(roots[h])]]

SharedAvlInit ==
    /\ memory = <<>>
    /\ held = [h \in Holders |-> Empty]
    /\ seen = [h \in Holders |-> finds(<<>>, Empty)]

SharedAvlPut ==
    \E h \in Holders, k \in SharedKeys, v \in SharedVals :
        LET r    == h_put(memory, held[h], k, v)
            kept == drop_unreached(r[1], [held EXCEPT ![h] = r[2]])
        IN  /\ Len(kept.memory) <= MaxCells
            /\ memory' = kept.memory
            /\ held' = kept.held
            /\ seen' = [seen EXCEPT ![h] = finds(kept.memory, kept.held[h])]
            /\ UNCHANGED <<avlVars, trieVars, mapVars, dequeVars, sharedTrieVars, listVars>>

SharedAvlDelete ==
    \E h \in Holders, k \in SharedKeys :
        LET r    == h_delete(memory, held[h], k)
            kept == drop_unreached(r[1], [held EXCEPT ![h] = r[2]])
        IN  /\ memory' = kept.memory
            /\ held' = kept.held
            /\ seen' = [seen EXCEPT ![h] = finds(kept.memory, kept.held[h])]
            /\ UNCHANGED <<avlVars, trieVars, mapVars, dequeVars, sharedTrieVars, listVars>>

SharedAvlClone ==
    \E h, other \in Holders :
        LET kept == drop_unreached(memory, [held EXCEPT ![h] = held[other]])
        IN  /\ h # other
            /\ memory' = kept.memory
            /\ held' = kept.held
            /\ seen' = [seen EXCEPT ![h] = finds(kept.memory, kept.held[h])]
            /\ UNCHANGED <<avlVars, trieVars, mapVars, dequeVars, sharedTrieVars, listVars>>

SharedAvlNext == SharedAvlPut \/ SharedAvlDelete \/ SharedAvlClone

\* The operations on the memory compute the trees the operations on tree
\* values compute.
SharedAvlAgrees ==
    \A h \in Holders, k \in SharedKeys :
        /\ \A v \in SharedVals :
               LET r == h_put(memory, held[h], k, v)
               IN  tree_of(r[1], r[2]) = put(tree_of(memory, held[h]), k, v)
        /\ LET r == h_delete(memory, held[h], k)
           IN  tree_of(r[1], r[2]) = delete(tree_of(memory, held[h]), k)
        /\ h_find(memory, held[h], k) = find(tree_of(memory, held[h]), k)

\* Whether the node at address a is part of the tree of node t.
RECURSIVE reaches(_, _, _)
reaches(cs, t, a) ==
    /\ ~is_empty(t)
    /\ \/ leftOf(t) = a
       \/ rightOf(t) = a
       \/ reaches(cs, as_ref(cs, leftOf(t)), a)
       \/ reaches(cs, as_ref(cs, rightOf(t)), a)

\* C15: producing a version by put or delete leaves every other version as
\* it was: for every holder and key, find on the holder's version gives what
\* it gave when the holder got the version, whatever the holders have done
\* on their own versions since.
AvlPersistence ==
    \A h \in Holders, k \in SharedKeys :
        h_find(memory, held[h], k) = seen[h][k]

\* The two held versions share a node and differ in what find gives for a
\* key, and each gives what its holder saw.
AvlPersistenceWitness ==
    /\ \E a \in 1..Len(memory) :
           reaches(memory, held["l"], a) /\ reaches(memory, held["l2"], a)
    /\ \E k \in SharedKeys :
           /\ h_find(memory, held["l"], k) # None
           /\ h_find(memory, held["l2"], k) # None
           /\ h_find(memory, held["l"], k) # h_find(memory, held["l2"], k)
    /\ \E k \in SharedKeys :
           h_find(memory, held["l"], k) # None /\ h_find(memory, held["l2"], k) = None
    /\ \A h \in Holders, k \in SharedKeys : h_find(memory, held[h], k) = seen[h][k]

(***************************************************************************)
(* The trie with its reference-counted nodes laid out in a memory.         *)
(* trie.rs holds the children of a node as (T, RefCounter<Trie<T, U>>):    *)
(* self.clone() copies the two vectors, the pointers in them included, and *)
(* versions of a trie share nodes.  A node is a record as before, a child  *)
(* now being <<symbol, address>>; cells[a] is the node at address a.  An   *)
(* operation gets the memory and gives the memory after it with its        *)
(* result: <<cells, trie>>, or none where the code returns none.           *)
(***************************************************************************)
\* An insert_store that writes the changed child into the cell of the old
\* child instead of a new cell.
RECURSIVE h_insert_store_in_place(_, _, _, _)
h_insert_store_in_place(cells, t, value, store) ==
    IF value = <<>>
    THEN <<cells, [t EXCEPT !.stored_value = Append(@, store)]>>
    ELSE LET head == Head(value)
             tail == Tail(value)
             i    == first_child(t, head)
         IN  IF i # 0
             THEN LET a   == t.adjecent_nodes[i][2]
                      sub == h_insert_store_in_place(cells, as_ref(cells, a),
                                                     tail, store)
                  IN  <<[sub[1] EXCEPT ![a] = sub[2]], t>>
             ELSE LET sub == h_insert_store_in_place(cells, empty_store, tail, store)
                      v   == RefCounter_new(sub[1], sub[2])
                  IN  <<v[1], [t EXCEPT !.adjecent_nodes = Append(@, <<head, v[2]>>)]>>

RECURSIVE h_insert_store(_, _, _, _)
h_insert_store(cells, t, value, store) ==
    IF value = <<>>
    THEN <<cells, [t EXCEPT !.stored_value = Append(@, store)]>>
    ELSE LET head == Head(value)
             tail == Tail(value)
             i    == first_child(t, head)
         IN  IF i # 0
             THEN LET sub == h_insert_store(cells,
                                 as_ref(cells, t.adjecent_nodes[i][2]), tail, store)
                      v   == RefCounter_new(sub[1], sub[2])
                  IN  <<v[1], [t EXCEPT !.adjecent_nodes[i] = <<head, v[2]>>]>>
             ELSE LET sub == h_insert_store(cells, empty_store, tail, store)
                      v   == RefCounter_new(sub[1], sub[2])
                  IN  <<v[1], [t EXCEPT !.adjecent_nodes = Append(@, <<head, v[2]>>)]>>

RECURSIVE h_get_store(_, _, _)
h_get_store(cells, t, value) ==
    IF value = <<>>
    THEN LET vr == t.stored_value
         IN  IF vr = <<>> THEN None ELSE Some(vr)
    ELSE LET i == first_child(t, Head(value))
         IN  IF i # 0
             THEN h_get_store(cells, as_ref(cells, t.adjecent_nodes[i][2]),
                              Tail(value))
             ELSE None

RECURSIVE h_delete_store(_, _, _, _, _)
h_delete_store(cells, t, value, store, U_eq) ==
    IF value = <<>>
    THEN LET new_trie == [t EXCEPT !.stored_value = retain_ne(@, store, U_eq)]
         IN  IF Len(t.stored_value) = Len(new_trie.stored_value)
             THEN None
             ELSE Some(<<cells, new_trie>>)
    ELSE LET head == Head(value)
             tail == Tail(value)
             i    == first_child(t, head)
         IN  IF i # 0
             THEN LET subt == h_delete_store(cells,
                                  as_ref(cells, t.adjecent_nodes[i][2]),
                                  tail, store, U_eq)
                  IN  IF subt = None THEN None
                      ELSE LET v == RefCounter_new(subt[1][1], subt[1][2])
                           IN  Some(<<v[1],
                                      [t EXCEPT !.adjecent_nodes[i] = <<head, v[2]>>]>>)
             ELSE None

\* The hash map over the trie in the memory.
h_map_put(cells, m, key, value) ==
    LET r == h_insert_store(cells, m.trie, get_bits(key), KeyValue(key, Some(value)))
    IN  <<r[1], [trie |-> r[2]]>>

h_map_get(cells, m, k) ==
    LET store == h_get_store(cells, m.trie, get_bits(k))
    IN  IF store = None THEN None
        ELSE LET store_cloned == store[1]
                 S == {i \in 1..Len(store_cloned) : store_cloned[i].key = k}
             IN  IF S = {} THEN None
                 ELSE store_cloned[CHOOSE i \in S : \A j \in S : i <= j].value

h_map_delete(cells, m, key) ==
    LET r == h_delete_store(cells, m.trie, get_bits(key), KeyValue(key, None),
                            KeyValue_eq)
    IN  IF r = None THEN None ELSE Some(<<r[1][1], [trie |-> r[1][2]]>>)

\* The trie value that the node t stands for in the memory cells.
RECURSIVE trie_of(_, _)
trie_of(cells, t) ==
    [stored_value   |-> t.stored_value,
     adjecent_nodes |-> [i \in 1..Len(t.adjecent_nodes) |->
                            <<t.adjecent_nodes[i][1],
                              trie_of(cells, as_ref(cells, t.adjecent_nodes[i][2]))>>]]

(***************************************************************************)
(* Specification of a holder of a trie or of a hash map in a memory.  The  *)
(* holder starts with Trie::empty() or HashMap::new(), calls insert_store  *)
(* or delete_store (put or delete) and goes on with the returned version;  *)
(* the cells that the version does not reach are dropped.  The properties  *)
(* are about the version the holder had before a call, looked up in the    *)
(* memory after the call.                                                  *)
(***************************************************************************)
is_map(ver) == "trie" \in DOMAIN ver

root_of(ver) == IF is_map(ver) THEN ver.trie ELSE ver

\* The addresses of the cells of the trie of node t: a parent before its
\* children, the children in the order of adjecent_nodes.
RECURSIVE trie_cells_of(_, _)
trie_cells_of(cs, t) ==
    LET below[i \in 0..Len(t.adjecent_nodes)] ==
            IF i = 0 THEN <<>>
            ELSE below[i - 1] \o <<t.adjecent_nodes[i][2]>>
                     \o trie_cells_of(cs, cs[t.adjecent_nodes[i][2]])
    IN  below[Len(t.adjecent_nodes)]

\* The memory and the version once the cells that ver does not reach are
\* dropped.
keep_reached(cs, ver) ==
    LET live == first_occurrences(trie_cells_of(cs, root_of(ver)))
        new_address(a) == CHOOSE i \in 1..Len(live) : live[i] = a
        moved(t) == [t EXCEPT !.adjecent_nodes =
                        [i \in 1..Len(@) |-> <<@[i][1], new_address(@[i][2])>>]]
    IN  [nodes   |-> [i \in 1..Len(live) |-> moved(cs[live[i]])],
         version |-> IF is_map(ver) THEN [trie |-> moved(ver.trie)] ELSE moved(ver)]

stored_in(cs, ver) == count_stored(trie_of(cs, root_of(ver)))

SharedTrieInit ==
    /\ nodes = <<>>
    /\ version = trie_empty

SharedTrieStart ==
    /\ nodes' = <<>>
    /\ version' = trie_empty
    /\ UNCHANGED <<avlVars, trieVars, mapVars, dequeVars, sharedAvlVars, listVars>>

SharedMapStart ==
    /\ nodes' = <<>>
    /\ version' = HashMap_new
    /\ UNCHANGED <<avlVars, trieVars, mapVars, dequeVars, sharedAvlVars, listVars>>

SharedInsertStore ==
    \E p \in Paths, v \in BOOLEAN :
        LET r    == h_insert_store(nodes, version, p, v)
            kept == keep_reached(r[1], r[2])
        IN  /\ ~is_map(version)
            /\ stored_in(nodes, version) < MaxSharedStored
            /\ nodes' = kept.nodes
            /\ version' = kept.version
            /\ UNCHANGED <<avlVars, trieVars, mapVars, dequeVars, sharedAvlVars, listVars>>

SharedDeleteStore ==
    \E p \in Paths, v \in BOOLEAN :
        LET r    == h_delete_store(nodes, version, p, v, bool_eq)
            kept == keep_reached(r[1][1], r[1][2])
        IN  /\ ~is_map(version)
            /\ r # None
            /\ nodes' = kept.nodes
            /\ version' = kept.version
            /\ UNCHANGED <<avlVars, trieVars, mapVars, dequeVars, sharedAvlVars, listVars>>

SharedMapPut ==
    \E k \in MapKeys, v \in MapVals :
        LET r    == h_map_put(nodes, version, k, v)
            kept == keep_reached(r[1], r[2])
        IN  /\ is_map(version)
            /\ stored_in(nodes, version) < MaxSharedStored
            /\ nodes' = kept.nodes
            /\ version' = kept.version
            /\ UNCHANGED <<avlVars, trieVars, mapVars, dequeVars, sharedAvlVars, listVars>>

SharedMapDelete ==
    \E k \in MapKeys :
        LET r    == h_map_delete(nodes, version, k)
            kept == keep_reached(r[1][1], r[1][2])
        IN  /\ is_map(version)
            /\ r # None
            /\ nodes' = kept.nodes
            /\ version' = kept.version
            /\ UNCHANGED <<avlVars, trieVars, mapVars, dequeVars, sharedAvlVars, listVars>>

SharedTrieNext ==
    \/ SharedTrieStart \/ SharedMapStart
    \/ SharedInsertStore \/ SharedDeleteStore
    \/ SharedMapPut \/ SharedMapDelete

\* The operations on the memory compute the tries the operations on trie
\* values compute.
SharedTrieAgrees ==
    /\ ~is_map(version) =>
           \A p \in CallPaths, v \in BOOLEAN :
               LET t   == trie_of(nodes, version)
                   ins == h_insert_store(nodes, version, p, v)
                   del == h_delete_store(nodes, version, p, v, bool_eq)
               IN  /\ trie_of(ins[1], ins[2]) = insert_store(t, p, v)
                   /\ h_get_store(nodes, version, p) = get_store(t, p)
                   /\ IF del = None THEN delete_store(t, p, v, bool_eq) = None
                      ELSE Some(trie_of(del[1][1], del[1][2]))
                               = delete_store(t, p, v, bool_eq)
    /\ is_map(version) =>
           \A k \in MapKeys, v \in MapVals :
               LET m   == [trie |-> trie_of(nodes, version.trie)]
                   ins == h_map_put(nodes, version, k, v)
                   del == h_map_delete(nodes, version, k)
               IN  /\ trie_of(ins[1], ins[2].trie) = map_put(m, k, v).trie
                   /\ h_map_get(nodes, version, k) = map_get(m, k)
                   /\ IF del = None THEN map_delete(m, k) = None
                      ELSE Some([trie |-> trie_of(del[1][1], del[1][2].trie)])
                               = map_delete(m, k)

\* C16: computing insert_store(p, v) or delete_store(p, v) on a trie, or
\* put(k, v) or delete(k) on a hash map, leaves the version it is called on
\* as it was: in the memory after the call, get_store (get) on that version
\* gives for every path (key) what it gave before the call.
TrieMapPersistence ==
    /\ ~is_map(version) =>
           \A p \in CallPaths, v \in BOOLEAN :
               LET ins == h_insert_store(nodes, version, p, v)
                   del == h_delete_store(nodes, version, p, v, bool_eq)
               IN  \A q \in CallPaths :
                       /\ h_get_store(ins[1], version, q)
                              = h_get_store(nodes, version, q)
                       /\ del # None =>
                              h_get_store(del[1][1], version, q)
                                  = h_get_store(nodes, version, q)
    /\ is_map(version) =>
           \A k \in MapKeys, v \in MapVals :
               LET ins == h_map_put(nodes, version, k, v)
                   del == h_map_delete(nodes, version, k)
               IN  \A k2 \in MapKeys :
                       /\ h_map_get(ins[1], version, k2)
                              = h_map_get(nodes, version, k2)
                       /\ del # None =>
                              h_map_get(del[1][1], version, k2)
                                  = h_map_get(nodes, version, k2)

\* A trie holds a value at a one-symbol path p and none at the other
\* one-symbol path q.  After delete_store at p the returned trie reports p
\* as absent and the version it was called on still reports p as present;
\* after insert_store at an extension of p, which replaces the child on the
\* way to p, the version it was called on still reports the extension as
\* absent and p as it was.
TrieMapPersistenceWitness ==
    /\ ~is_map(version)
    /\ \E p \in Paths, v \in BOOLEAN :
           LET del == h_delete_store(nodes, version, p, v, bool_eq)
               ext == Append(p, v)
               ins == h_insert_store(nodes, version, ext, v)
           IN  /\ Len(p) = 1
               /\ h_get_store(nodes, version, p) = Some(<<v>>)
               /\ del # None
               /\ h_get_store(del[1][1], del[1][2], p) = None
               /\ h_get_store(del[1][1], version, p) = Some(<<v>>)
               /\ h_get_store(ins[1], ins[2], ext) = Some(<<v>>)
               /\ h_get_store(ins[1], version, ext) = None
               /\ h_get_store(ins[1], version, p) = Some(<<v>>)

(***************************************************************************)
(* The specifications: one per structure, and all of them together.        *)
(***************************************************************************)
Init ==
    /\ AvlInit /\ TrieInit /\ MapInit /\ ListInit /\ DequeInit
    /\ SharedAvlInit /\ SharedTrieInit

Next ==
    \/ AvlNext \/ TrieNext \/ MapNext \/ ListNext \/ DequeNext
    \/ SharedAvlNext \/ SharedTrieNext

Spec == Init /\ [][Next]_vars

SpecAVL == Init /\ [][AvlNext]_vars

SpecTrie == Init /\ [][TrieNext]_vars

SpecMap == Init /\ [][MapNext]_vars

SpecList == Init /\ [][ListNext]_vars

SpecDeque == Init /\ [][DequeNext]_vars

SpecSharedAVL == Init /\ [][SharedAvlNext]_vars

SpecSharedTrie == Init /\ [][SharedTrieNext]_vars

=============================================================================
